---- MODULE Spec2Model ----
(***************************************************************************)
(* Model of the staking ledger of contracts/sources/tardi_staking.move:    *)
(* the shared StakingPool, the owned StakePosition objects, the reward     *)
(* accrual function and the six entry functions.                           *)
(*                                                                         *)
(* A Move abort reverts the whole transaction, so a rejected call leaves   *)
(* every variable as it was.  The outcome of a call is a function of the   *)
(* state it is made in (the *_result operators), and the entry function    *)
(* takes effect exactly when that outcome is Success.                      *)
(*                                                                         *)
(* event::emit and transfer::public_transfer add to the effects of the     *)
(* transaction that calls them: `events` and `transfers` hold the effects  *)
(* of the most recent executed transaction.                                *)
(*                                                                         *)
(* Widths.  Every u64 of the contract (amounts, balances, timestamps in    *)
(* seconds) stays far below 2^64 for the inputs enumerated here, and the   *)
(* u128 product of calculate_rewards is computed exactly on decimal digit  *)
(* sequences, so no addition or multiplication of the model can wrap.  The *)
(* u64 subtractions, which abort on underflow, are modelled with their     *)
(* abort.                                                                  *)
(***************************************************************************)
EXTENDS Integers, Sequences, FiniteSets, TLC

VARIABLES pool, stakes, next_id, clock, events, transfers

vars == <<pool, stakes, next_id, clock, events, transfers>>

----------------------------------------------------------------------------
(* Constants of the contract *)

STAKING_DURATION_30_DAYS == 2592000
STAKING_DURATION_90_DAYS == 7776000
STAKING_DURATION_180_DAYS == 15552000
STAKING_DURATION_365_DAYS == 31536000

APY_30_DAYS == 500
APY_90_DAYS == 800
APY_180_DAYS == 1200
APY_365_DAYS == 2000

SECONDS_PER_YEAR == 31536000
BASIS_POINTS_DENOMINATOR == 10000

E_INSUFFICIENT_BALANCE == 0
E_INVALID_DURATION == 1
E_NOT_OWNER == 2
E_STAKE_STILL_LOCKED == 3
E_INVALID_AMOUNT == 4
E_ZERO_REWARD == 5

----------------------------------------------------------------------------
(* Bounds and input sets *)

\* number of StakePosition objects ever created
MaxStakes == 2
\* clock value (seconds) when the pool is shared
StartTime == 1000
\* last clock value explored: 45 days after StartTime
MaxTime == 3889000
\* add_rewards is explored while the reserve stays within this
MaxReserve == 5

Addresses == {"alice", "bob"}
\* the deployer, who receives the AdminCap in init
Deployer == "admin"
Callers == Addresses \cup {Deployer}

\* coin values offered to create_stake (0 is the rejected one)
StakeAmounts == {0, 1000}
\* lock durations offered to create_stake (86400 is not in the table)
LockDurations == {STAKING_DURATION_30_DAYS, 86400}
\* coin values offered to add_rewards
RewardDeposits == {5}
\* clock advances, in seconds: 15 and 30 days
TickSteps == {1296000, 2592000}

\* Inputs of the accrual function explored on their own (SpecCalc): the
\* principal, the four table durations, and the seconds elapsed since the
\* position was created
CalcAmounts == {1, 1000, 73000, 999999}
TableDurations == {STAKING_DURATION_30_DAYS, STAKING_DURATION_90_DAYS,
                   STAKING_DURATION_180_DAYS, STAKING_DURATION_365_DAYS}
CalcElapsed == {0, 1, 86400, 2592000, 7776000, 15552000, 31535999, 31536000, 40000000}
\* the reserve funded before the accrual is claimed in SpecCalc
CalcReserve == 1000000

\* lock durations offered to create_stake when it is explored on its own
\* (SpecTable): the four of the table, and three that are not in it
CreateDurations == TableDurations \cup {0, 86400, 2592001}

----------------------------------------------------------------------------
(* Exact wide arithmetic: naturals as little-endian sequences of decimal   *)
(* digits, standing for the u128 values of calculate_rewards.              *)

RECURSIVE Digits(_)
Digits(n) == IF n < 10 THEN <<n>> ELSE <<n % 10>> \o Digits(n \div 10)

RECURSIVE MulCarry(_, _, _)
MulCarry(ds, k, carry) ==
    IF ds = <<>>
    THEN IF carry = 0 THEN <<>> ELSE Digits(carry)
    ELSE LET v == Head(ds) * k + carry
         IN  <<v % 10>> \o MulCarry(Tail(ds), k, v \div 10)

\* ds * k
MulSmall(ds, k) == MulCarry(ds, k, 0)

RECURSIVE DivRem(_, _)
DivRem(ds, k) ==
    IF ds = <<>>
    THEN [q |-> <<>>, r |-> 0]
    ELSE LET rest == DivRem(Tail(ds), k)
             cur == rest.r * 10 + Head(ds)
         IN  [q |-> <<cur \div k>> \o rest.q, r |-> cur % k]

\* floor(ds / k)
DivSmall(ds, k) == DivRem(ds, k).q

RECURSIVE ToNat(_)
ToNat(ds) == IF ds = <<>> THEN 0 ELSE Head(ds) + 10 * ToNat(Tail(ds))

RECURSIVE Strip(_)
Strip(ds) ==
    IF ds = <<>> THEN <<>>
    ELSE IF ds[Len(ds)] = 0 THEN Strip(SubSeq(ds, 1, Len(ds) - 1))
    ELSE ds

RECURSIVE LessEqSameLen(_, _)
LessEqSameLen(a, b) ==
    IF a = <<>> THEN TRUE
    ELSE LET n == Len(a)
         IN  IF a[n] < b[n] THEN TRUE
             ELSE IF a[n] > b[n] THEN FALSE
             ELSE LessEqSameLen(SubSeq(a, 1, n - 1), SubSeq(b, 1, n - 1))

\* a <= b on digit sequences
WideLessEq(a, b) ==
    LET x == Strip(a)
        y == Strip(b)
    IN  IF Len(x) # Len(y) THEN Len(x) < Len(y) ELSE LessEqSameLen(x, y)

----------------------------------------------------------------------------
(* View functions *)

\* mutant of get_reward_rate: the rates of 90 and 180 days are exchanged
get_reward_rate_exchanged(lock_duration) ==
    IF lock_duration = STAKING_DURATION_30_DAYS THEN APY_30_DAYS
    ELSE IF lock_duration = STAKING_DURATION_90_DAYS THEN APY_180_DAYS
    ELSE IF lock_duration = STAKING_DURATION_180_DAYS THEN APY_90_DAYS
    ELSE IF lock_duration = STAKING_DURATION_365_DAYS THEN APY_365_DAYS
    ELSE 0

get_reward_rate(lock_duration) ==
    IF lock_duration = STAKING_DURATION_30_DAYS THEN APY_30_DAYS
    ELSE IF lock_duration = STAKING_DURATION_90_DAYS THEN APY_90_DAYS
    ELSE IF lock_duration = STAKING_DURATION_180_DAYS THEN APY_180_DAYS
    ELSE IF lock_duration = STAKING_DURATION_365_DAYS THEN APY_365_DAYS
    ELSE 0

\* mutant of calculation_time: no clamp to end_time
calculation_time_unclamped(stake, current_time) == current_time

\* the clamp of calculate_rewards: never beyond end_time
calculation_time(stake, current_time) ==
    IF current_time > stake.end_time THEN stake.end_time ELSE current_time

\* the u64 subtraction calculation_time - last_compound_time aborts the
\* transaction when it would be negative
calculate_rewards_aborts(stake, current_time) ==
    calculation_time(stake, current_time) < stake.last_compound_time

\* mutant of calculate_rewards: every window that is not empty pays one unit
\* more than the floor
calculate_rewards_plus_dust(stake, current_time) ==
    LET time_elapsed == calculation_time(stake, current_time) - stake.last_compound_time
        rewards == MulSmall(MulSmall(Digits(stake.amount), stake.reward_rate), time_elapsed)
    IN  ToNat(DivSmall(DivSmall(rewards, BASIS_POINTS_DENOMINATOR), SECONDS_PER_YEAR))
          + (IF time_elapsed > 0 THEN 1 ELSE 0)

\* mutant of calculate_rewards: the rate is taken as a percentage, not as
\* basis points
calculate_rewards_percent(stake, current_time) ==
    LET time_elapsed == calculation_time(stake, current_time) - stake.last_compound_time
        rewards == MulSmall(MulSmall(Digits(stake.amount), stake.reward_rate), time_elapsed)
    IN  ToNat(DivSmall(DivSmall(rewards, 100), SECONDS_PER_YEAR))

\* (amount * reward_rate * time_elapsed) / (BASIS_POINTS_DENOMINATOR *
\* SECONDS_PER_YEAR) on the wide product; the divisor's two factors are
\* divided out one after the other, floor(floor(x / a) / b) being
\* floor(x / (a * b)) on naturals.  Defined where the subtraction succeeds.
calculate_rewards(stake, current_time) ==
    LET time_elapsed == calculation_time(stake, current_time) - stake.last_compound_time
        rewards == MulSmall(MulSmall(Digits(stake.amount), stake.reward_rate), time_elapsed)
    IN  ToNat(DivSmall(DivSmall(rewards, BASIS_POINTS_DENOMINATOR), SECONDS_PER_YEAR))

get_pool_details(p) == <<p.staked_balance, p.reward_balance, p.total_stakes_count>>

----------------------------------------------------------------------------
(* Outcomes of a call *)

Success == [status |-> "success", code |-> 0]
\* assert!(cond, code) failed
Abort(code) == [status |-> "abort", code |-> code]
\* the VM's abort on u64 underflow
ArithmeticError == [status |-> "arithmetic_error", code |-> 0]
\* balance::split of more than the balance holds
NotEnough == [status |-> "balance_not_enough", code |-> 0]
\* the transaction names an object its sender may not use; never executed
InputRejected == [status |-> "input_rejected", code |-> 0]

\* an aborted transaction has no effect
\* mutant of Rejected: the counter written before the abort stays written
Rejected_partly_applied ==
    /\ pool' = [pool EXCEPT !.total_staked = @ + 1]
    /\ UNCHANGED <<stakes, next_id, clock, events, transfers>>

Rejected == UNCHANGED vars

----------------------------------------------------------------------------
(* init *)

Init ==
    /\ pool = [staked_balance |-> 0, reward_balance |-> 0,
               total_staked |-> 0, total_stakes_count |-> 0]
    /\ stakes = << >>
    /\ next_id = 1
    /\ clock = StartTime
    /\ events = << >>
    /\ transfers = << >>

----------------------------------------------------------------------------
(* Entry functions.  `clock` holds clock::timestamp_ms(clock) / 1000, the  *)
(* current_time every entry function reads.                                *)

\* the stake objects without the one deleted
Without(id) == [i \in DOMAIN stakes \ {id} |-> stakes[i]]

\* the stake objects with object `id` set to s
With(id, s) == [i \in DOMAIN stakes \cup {id} |-> IF i = id THEN s ELSE stakes[i]]

\* a coin of `amount` sent to `to`
Transfer(to, amount) == [to |-> to, amount |-> amount]

\* balance::join of the deposit and the two counters
pool_create(p, amount) ==
    [p EXCEPT !.staked_balance = @ + amount,
              !.total_staked = @ + amount,
              !.total_stakes_count = @ + 1]

\* mutant of create_stake_result: the duration is not validated
create_stake_result_any_duration(sender, amount, lock_duration) ==
    IF ~(amount > 0) THEN Abort(E_INVALID_AMOUNT)
    ELSE Success

create_stake_result(sender, amount, lock_duration) ==
    IF ~(amount > 0) THEN Abort(E_INVALID_AMOUNT)
    ELSE IF ~(get_reward_rate(lock_duration) > 0) THEN Abort(E_INVALID_DURATION)
    ELSE Success

create_stake(sender, amount, lock_duration, auto_compound) ==
    LET reward_rate == get_reward_rate(lock_duration)
        current_time == clock
        end_time == current_time + lock_duration
        id == next_id
        stake == [owner |-> sender, amount |-> amount, start_time |-> current_time,
                  lock_duration |-> lock_duration, end_time |-> end_time,
                  reward_rate |-> reward_rate, auto_compound |-> auto_compound,
                  last_compound_time |-> current_time]
    IN  IF create_stake_result(sender, amount, lock_duration) # Success THEN Rejected
        ELSE /\ next_id <= MaxStakes
             /\ pool' = pool_create(pool, amount)
             /\ events' = <<[type |-> "StakeCreated", stake_id |-> id, owner |-> sender,
                             amount |-> amount, lock_duration |-> lock_duration,
                             reward_rate |-> reward_rate, auto_compound |-> auto_compound]>>
             /\ transfers' = << >>
             /\ stakes' = With(id, stake)
             /\ next_id' = next_id + 1
             /\ UNCHANGED clock

\* mutant of real_reward: the reward is not clamped to the reserve
real_reward_unclamped(reward_amount, available_rewards) == reward_amount

\* mutant of real_reward: the comparison is the wrong way round
real_reward_swapped(reward_amount, available_rewards) ==
    IF reward_amount < available_rewards THEN available_rewards ELSE reward_amount

\* min(reward_amount, available_rewards), as the three callers compute it
real_reward(reward_amount, available_rewards) ==
    IF reward_amount > available_rewards THEN available_rewards ELSE reward_amount

\* mutant of pool_withdraw: the reward paid is not split off the reserve
pool_withdraw_reward_kept(p, amount, paid) ==
    [p EXCEPT !.total_staked = @ - amount,
              !.total_stakes_count = @ - 1,
              !.staked_balance = @ - amount]

\* mutant of pool_withdraw: total_stakes_count is not decremented
pool_withdraw_count_kept(p, amount, paid) ==
    [p EXCEPT !.total_staked = @ - amount,
              !.staked_balance = @ - amount,
              !.reward_balance = @ - paid]

\* the counters, the principal split off staked_balance and the reward split
\* off reward_balance
pool_withdraw(p, amount, paid) ==
    [p EXCEPT !.total_staked = @ - amount,
              !.total_stakes_count = @ - 1,
              !.staked_balance = @ - amount,
              !.reward_balance = @ - paid]

\* mutant of withdraw_stake_result: the lock period is not verified
withdraw_stake_result_unlocked(p, stake, current_time, sender) ==
    IF stake.owner # sender THEN Abort(E_NOT_OWNER)
    ELSE IF calculate_rewards_aborts(stake, current_time) THEN ArithmeticError
    ELSE IF p.total_staked < stake.amount \/ p.total_stakes_count < 1 THEN ArithmeticError
    ELSE IF p.staked_balance < stake.amount THEN NotEnough
    ELSE Success

\* mutant of withdraw_stake_result: the reserve has to cover the reward
withdraw_stake_result_needs_reserve(p, stake, current_time, sender) ==
    IF stake.owner # sender THEN Abort(E_NOT_OWNER)
    ELSE IF ~(current_time >= stake.end_time) THEN Abort(E_STAKE_STILL_LOCKED)
    ELSE IF calculate_rewards_aborts(stake, current_time) THEN ArithmeticError
    ELSE IF p.reward_balance < calculate_rewards(stake, current_time)
    THEN Abort(E_INSUFFICIENT_BALANCE)
    ELSE IF p.total_staked < stake.amount \/ p.total_stakes_count < 1 THEN ArithmeticError
    ELSE IF p.staked_balance < stake.amount THEN NotEnough
    ELSE Success

\* mutant of withdraw_stake_result: the lock is checked before the owner
withdraw_stake_result_lock_first(p, stake, current_time, sender) ==
    IF ~(current_time >= stake.end_time) THEN Abort(E_STAKE_STILL_LOCKED)
    ELSE IF stake.owner # sender THEN Abort(E_NOT_OWNER)
    ELSE IF calculate_rewards_aborts(stake, current_time) THEN ArithmeticError
    ELSE IF p.total_staked < stake.amount \/ p.total_stakes_count < 1 THEN ArithmeticError
    ELSE IF p.staked_balance < stake.amount THEN NotEnough
    ELSE Success

withdraw_stake_result(p, stake, current_time, sender) ==
    IF stake.owner # sender THEN Abort(E_NOT_OWNER)
    ELSE IF ~(current_time >= stake.end_time) THEN Abort(E_STAKE_STILL_LOCKED)
    ELSE IF calculate_rewards_aborts(stake, current_time) THEN ArithmeticError
    ELSE IF p.total_staked < stake.amount \/ p.total_stakes_count < 1 THEN ArithmeticError
    ELSE IF p.staked_balance < stake.amount THEN NotEnough
    ELSE Success

\* mutant of withdraw_stake: RewardClaimed is emitted whatever the reward
withdraw_stake_always_reports(sender, id) ==
    LET stake == stakes[id]
        current_time == clock
        amount == stake.amount
        reward_amount == calculate_rewards(stake, current_time)
        available_rewards == pool.reward_balance
        paid == IF reward_amount > 0
                THEN real_reward(reward_amount, available_rewards) ELSE 0
    IN  IF withdraw_stake_result(pool, stake, current_time, sender) # Success THEN Rejected
        ELSE /\ pool' = pool_withdraw(pool, amount, paid)
             /\ transfers' = <<Transfer(sender, amount)>>
                    \o (IF paid > 0 THEN <<Transfer(sender, paid)>> ELSE << >>)
             /\ events' = <<[type |-> "RewardClaimed", stake_id |-> id,
                             owner |-> sender, reward_amount |-> paid],
                            [type |-> "StakeWithdrawn", stake_id |-> id,
                             owner |-> sender, amount |-> amount]>>
             /\ stakes' = Without(id)
             /\ UNCHANGED <<next_id, clock>>

withdraw_stake(sender, id) ==
    LET stake == stakes[id]
        current_time == clock
        amount == stake.amount
        reward_amount == calculate_rewards(stake, current_time)
        available_rewards == pool.reward_balance
        paid == IF reward_amount > 0
                THEN real_reward(reward_amount, available_rewards) ELSE 0
    IN  IF withdraw_stake_result(pool, stake, current_time, sender) # Success THEN Rejected
        ELSE /\ pool' = pool_withdraw(pool, amount, paid)
             /\ transfers' = <<Transfer(sender, amount)>>
                    \o (IF paid > 0 THEN <<Transfer(sender, paid)>> ELSE << >>)
             /\ events' = (IF paid > 0
                           THEN <<[type |-> "RewardClaimed", stake_id |-> id,
                                   owner |-> sender, reward_amount |-> paid]>>
                           ELSE << >>)
                    \o <<[type |-> "StakeWithdrawn", stake_id |-> id,
                          owner |-> sender, amount |-> amount]>>
             /\ stakes' = Without(id)
             /\ UNCHANGED <<next_id, clock>>

\* mutant of stake_claim: last_compound_time is left as it was
stake_claim_keeps_time(stake, current_time) == stake

\* stake.last_compound_time = current_time
stake_claim(stake, current_time) ==
    [stake EXCEPT !.last_compound_time = current_time]

\* mutant of pool_claim: the reward is joined to the reserve
pool_claim_joined(p, paid) == [p EXCEPT !.reward_balance = @ + paid]

\* the reward split off reward_balance
pool_claim(p, paid) == [p EXCEPT !.reward_balance = @ - paid]

claim_rewards_result(p, stake, current_time, sender) ==
    IF stake.owner # sender THEN Abort(E_NOT_OWNER)
    ELSE IF calculate_rewards_aborts(stake, current_time) THEN ArithmeticError
    ELSE IF ~(calculate_rewards(stake, current_time) > 0) THEN Abort(E_ZERO_REWARD)
    ELSE IF ~(real_reward(calculate_rewards(stake, current_time), p.reward_balance) > 0)
    THEN Abort(E_ZERO_REWARD)
    ELSE Success

claim_rewards(sender, id) ==
    LET stake == stakes[id]
        current_time == clock
        reward_amount == calculate_rewards(stake, current_time)
        available_rewards == pool.reward_balance
        paid == real_reward(reward_amount, available_rewards)
    IN  IF claim_rewards_result(pool, stake, current_time, sender) # Success THEN Rejected
        ELSE /\ stakes' = With(id, stake_claim(stake, current_time))
             /\ pool' = pool_claim(pool, paid)
             /\ transfers' = <<Transfer(sender, paid)>>
             /\ events' = <<[type |-> "RewardClaimed", stake_id |-> id,
                             owner |-> sender, reward_amount |-> paid]>>
             /\ UNCHANGED <<next_id, clock>>

\* mutant of stake_compound: compounding starts the lock period again
stake_compound_relocks(stake, compounded, current_time) ==
    [stake EXCEPT !.amount = @ + compounded,
                  !.last_compound_time = current_time,
                  !.end_time = current_time + stake.lock_duration]

\* mutant of stake_compound: last_compound_time is not advanced
stake_compound_keeps_time(stake, compounded, current_time) ==
    [stake EXCEPT !.amount = @ + compounded]

\* stake.amount grows by the reward; last_compound_time = current_time
stake_compound(stake, compounded, current_time) ==
    [stake EXCEPT !.amount = @ + compounded,
                  !.last_compound_time = current_time]

\* mutant of pool_compound: the counter total_staked is not updated
pool_compound_total_kept(p, compounded) ==
    [p EXCEPT !.reward_balance = @ - compounded,
              !.staked_balance = @ + compounded]

\* mutant of pool_compound: the reward leaves the reserve but is not joined to
\* staked_balance
pool_compound_not_joined(p, compounded) ==
    [p EXCEPT !.reward_balance = @ - compounded,
              !.total_staked = @ + compounded]

\* the reward moves from reward_balance to staked_balance
pool_compound(p, compounded) ==
    [p EXCEPT !.reward_balance = @ - compounded,
              !.staked_balance = @ + compounded,
              !.total_staked = @ + compounded]

\* mutant of compound_rewards_result: compounding ends with the lock
compound_rewards_result_until_end(p, stake, current_time, sender) ==
    IF stake.owner # sender THEN Abort(E_NOT_OWNER)
    ELSE IF current_time >= stake.end_time THEN Abort(E_STAKE_STILL_LOCKED)
    ELSE IF calculate_rewards_aborts(stake, current_time) THEN ArithmeticError
    ELSE IF ~(calculate_rewards(stake, current_time) > 0) THEN Abort(E_ZERO_REWARD)
    ELSE IF ~(real_reward(calculate_rewards(stake, current_time), p.reward_balance) > 0)
    THEN Abort(E_ZERO_REWARD)
    ELSE Success

\* mutant of compound_rewards_result: the clamped amount is not asserted
compound_rewards_result_one_assert(p, stake, current_time, sender) ==
    IF stake.owner # sender THEN Abort(E_NOT_OWNER)
    ELSE IF calculate_rewards_aborts(stake, current_time) THEN ArithmeticError
    ELSE IF ~(calculate_rewards(stake, current_time) > 0) THEN Abort(E_ZERO_REWARD)
    ELSE Success

compound_rewards_result(p, stake, current_time, sender) ==
    IF stake.owner # sender THEN Abort(E_NOT_OWNER)
    ELSE IF calculate_rewards_aborts(stake, current_time) THEN ArithmeticError
    ELSE IF ~(calculate_rewards(stake, current_time) > 0) THEN Abort(E_ZERO_REWARD)
    ELSE IF ~(real_reward(calculate_rewards(stake, current_time), p.reward_balance) > 0)
    THEN Abort(E_ZERO_REWARD)
    ELSE Success

compound_rewards(sender, id) ==
    LET stake == stakes[id]
        current_time == clock
        reward_amount == calculate_rewards(stake, current_time)
        available_rewards == pool.reward_balance
        compounded == real_reward(reward_amount, available_rewards)
    IN  IF compound_rewards_result(pool, stake, current_time, sender) # Success THEN Rejected
        ELSE /\ stakes' = With(id, stake_compound(stake, compounded, current_time))
             /\ pool' = pool_compound(pool, compounded)
             /\ transfers' = << >>
             /\ events' = <<[type |-> "RewardCompounded", stake_id |-> id,
                             owner |-> sender, compound_amount |-> compounded]>>
             /\ UNCHANGED <<next_id, clock>>

toggle_auto_compound_result(stake, sender) ==
    IF stake.owner # sender THEN Abort(E_NOT_OWNER) ELSE Success

\* mutant of toggle_auto_compound: switching the flag on compounds what has
\* accrued
toggle_auto_compound_compounding(sender, id, auto_compound) ==
    LET stake == stakes[id]
        compounded == real_reward(calculate_rewards(stake, clock), pool.reward_balance)
    IN  IF toggle_auto_compound_result(stake, sender) # Success THEN Rejected
        ELSE IF auto_compound
                /\ compound_rewards_result(pool, stake, clock, sender) = Success
        THEN /\ stakes' = With(id, [stake_compound(stake, compounded, clock)
                                      EXCEPT !.auto_compound = auto_compound])
             /\ pool' = pool_compound(pool, compounded)
             /\ events' = << >>
             /\ transfers' = << >>
             /\ UNCHANGED <<next_id, clock>>
        ELSE /\ stakes' = With(id, [stake EXCEPT !.auto_compound = auto_compound])
             /\ events' = << >>
             /\ transfers' = << >>
             /\ UNCHANGED <<pool, next_id, clock>>

toggle_auto_compound(sender, id, auto_compound) ==
    LET stake == stakes[id]
    IN  IF toggle_auto_compound_result(stake, sender) # Success THEN Rejected
        ELSE /\ stakes' = With(id, [stake EXCEPT !.auto_compound = auto_compound])
             /\ events' = << >>
             /\ transfers' = << >>
             /\ UNCHANGED <<pool, next_id, clock>>

\* the AdminCap is owned by the deployer and the module never transfers it:
\* a transaction of anyone else that names it is not executed
add_rewards_result(sender) ==
    IF sender # Deployer THEN InputRejected ELSE Success

add_rewards(sender, rewards) ==
    IF add_rewards_result(sender) # Success THEN Rejected
    ELSE /\ pool.reward_balance + rewards <= MaxReserve
         /\ pool' = [pool EXCEPT !.reward_balance = @ + rewards]
         /\ events' = << >>
         /\ transfers' = << >>
         /\ UNCHANGED <<stakes, next_id, clock>>

\* the system clock advances between transactions
Tick(step) ==
    /\ clock + step <= MaxTime
    /\ clock' = clock + step
    /\ UNCHANGED <<pool, stakes, next_id, events, transfers>>

Next ==
    \/ \E sender \in Addresses, amount \in StakeAmounts, d \in LockDurations,
          auto_compound \in BOOLEAN :
          create_stake(sender, amount, d, auto_compound)
    \/ \E sender \in Addresses, id \in DOMAIN stakes : withdraw_stake(sender, id)
    \/ \E sender \in Addresses, id \in DOMAIN stakes : claim_rewards(sender, id)
    \/ \E sender \in Addresses, id \in DOMAIN stakes : compound_rewards(sender, id)
    \/ \E sender \in Addresses, id \in DOMAIN stakes, auto_compound \in BOOLEAN :
          toggle_auto_compound(sender, id, auto_compound)
    \/ \E sender \in Callers, rewards \in RewardDeposits : add_rewards(sender, rewards)
    \/ \E step \in TickSteps : Tick(step)

Spec == Init /\ [][Next]_vars

----------------------------------------------------------------------------
(* The accrual function on its own: one position created at StartTime, the *)
(* reserve funded with CalcReserve, the clock advanced; then the owner     *)
(* claims or compounds.                                                    *)

InitCalc ==
    \E amount \in CalcAmounts, d \in TableDurations, e \in CalcElapsed :
        /\ stakes = <<[owner |-> "alice", amount |-> amount, start_time |-> StartTime,
                       lock_duration |-> d, end_time |-> StartTime + d,
                       reward_rate |-> get_reward_rate(d), auto_compound |-> FALSE,
                       last_compound_time |-> StartTime]>>
        /\ pool = [staked_balance |-> amount, reward_balance |-> CalcReserve,
                   total_staked |-> amount, total_stakes_count |-> 1]
        /\ next_id = 2
        /\ clock = StartTime + e
        /\ events = << >>
        /\ transfers = << >>

NextCalc ==
    \/ \E sender \in Addresses, id \in DOMAIN stakes : claim_rewards(sender, id)
    \/ \E sender \in Addresses, id \in DOMAIN stakes : compound_rewards(sender, id)

SpecCalc == InitCalc /\ [][NextCalc]_vars

----------------------------------------------------------------------------
(* Repeated compounding: the position and reserve of InitCalc, the owner   *)
(* compounds while the clock advances.                                     *)

NextCompound ==
    \/ \E sender \in Addresses, id \in DOMAIN stakes : compound_rewards(sender, id)
    \/ \E step \in TickSteps : Tick(step)

SpecCompound == InitCalc /\ [][NextCompound]_vars

----------------------------------------------------------------------------
(* A position that is only claimed: the position and reserve of InitCalc,  *)
(* the owner claims while the clock advances, and withdraws.               *)

NextClaim ==
    \/ \E sender \in Addresses, id \in DOMAIN stakes : claim_rewards(sender, id)
    \/ \E sender \in Addresses, id \in DOMAIN stakes : withdraw_stake(sender, id)
    \/ \E step \in TickSteps : Tick(step)

SpecClaim == InitCalc /\ [][NextClaim]_vars

----------------------------------------------------------------------------
(* create_stake on its own: every table duration and durations outside the *)
(* table, at every time the clock reaches.                                 *)

NextTable ==
    \/ \E sender \in Addresses, amount \in StakeAmounts, d \in CreateDurations,
          auto_compound \in BOOLEAN :
          create_stake(sender, amount, d, auto_compound)
    \/ \E step \in TickSteps : Tick(step)

SpecTable == Init /\ [][NextTable]_vars

----------------------------------------------------------------------------
(* Properties *)

Live == DOMAIN stakes

RECURSIVE SumAmounts(_)
SumAmounts(ids) ==
    IF ids = {} THEN 0
    ELSE LET id == CHOOSE i \in ids : TRUE
         IN  stakes[id].amount + SumAmounts(ids \ {id})

\* C1: in every reachable state the pool's staked balance equals the sum of
\* `amount` over the live positions.
C1_StakedBalanceIsSum == pool.staked_balance = SumAmounts(Live)

\* two positions were created, one was compounded and one withdrawn
C1_Witness ==
    /\ next_id = 3
    /\ Cardinality(Live) = 1
    /\ \E id \in Live : stakes[id].amount > 1000
    /\ pool.staked_balance > 1000

\* C2: a withdraw_stake by the owner of a live position at now >= endTime is
\* accepted, whatever happened before.
C2_WithdrawAfterEndAccepted ==
    \A id \in Live :
        clock >= stakes[id].end_time
            => withdraw_stake_result(pool, stakes[id], clock, stakes[id].owner) = Success

\* C3: every live position has lastAccrualTime <= min(now, endTime).
C3_LastAccrualBounded ==
    \A id \in Live :
        /\ stakes[id].last_compound_time <= clock
        /\ stakes[id].last_compound_time <= stakes[id].end_time

\* the step changes the pool and changes or deletes position id, as every
\* accepted claim, compound and withdraw does
Touched(id) ==
    /\ pool' # pool
    /\ id \notin DOMAIN stakes' \/ stakes'[id] # stakes[id]

\* Steps: an accepted call of the owner on position id
ClaimAccepted(id) ==
    /\ Touched(id)
    /\ claim_rewards_result(pool, stakes[id], clock, stakes[id].owner) = Success
    /\ claim_rewards(stakes[id].owner, id)

CompoundAccepted(id) ==
    /\ Touched(id)
    /\ compound_rewards_result(pool, stakes[id], clock, stakes[id].owner) = Success
    /\ compound_rewards(stakes[id].owner, id)

WithdrawAccepted(id) ==
    /\ Touched(id)
    /\ withdraw_stake_result(pool, stakes[id], clock, stakes[id].owner) = Success
    /\ withdraw_stake(stakes[id].owner, id)

\* the reward accrued by position id at the current time
Accrued(id) == calculate_rewards(stakes[id], clock)

Min(a, b) == IF a <= b THEN a ELSE b

\* C4: rewardBalance is never negative, and every accepted claim_rewards,
\* compound_rewards and withdraw_stake removes exactly min(accrued reward,
\* rewardBalance) from the reserve, never more than it held.
C4_ReserveNeverOverdrawn ==
    [][/\ pool'.reward_balance >= 0
       /\ \A id \in Live :
            (ClaimAccepted(id) \/ CompoundAccepted(id) \/ WithdrawAccepted(id))
                => /\ pool.reward_balance - pool'.reward_balance
                        = Min(Accrued(id), pool.reward_balance)
                   /\ pool.reward_balance - pool'.reward_balance <= pool.reward_balance
      ]_vars

\* a payout has emptied a reserve that was smaller than the reward accrued
C4_Witness ==
    /\ pool.reward_balance = 0
    /\ Len(events) = 1
    /\ events[1].type = "RewardClaimed"
    /\ events[1].reward_amount \in {1, 3}

Locked(id) == clock < stakes[id].end_time

\* a locked position survives the step with its principal, and a
\* withdraw_stake on it changes nothing
C5_Kept ==
    \A id \in Live :
        Locked(id)
            => /\ id \in DOMAIN stakes'
               /\ stakes'[id].amount >= stakes[id].amount
               /\ Touched(id) => \A sender \in Addresses : ~withdraw_stake(sender, id)

\* principal leaves staked_balance only with an unlocked position
C5_Released ==
    pool'.staked_balance < pool.staked_balance
        => \E id \in Live :
               /\ id \notin DOMAIN stakes'
               /\ ~Locked(id)
               /\ pool.staked_balance - pool'.staked_balance = stakes[id].amount

\* the owner's withdraw_stake on a locked position is rejected
C5_Rejected ==
    \A id \in Live :
        Locked(id)
            => withdraw_stake_result(pool, stakes[id], clock, stakes[id].owner)
                   = Abort(E_STAKE_STILL_LOCKED)

\* C5: while now < endTime a withdraw_stake of the owner is rejected with
\* E_STAKE_STILL_LOCKED and changes nothing; no position is destroyed and no
\* principal leaves staked_balance before the position's endTime.
C5_NoEarlyWithdrawal == [][C5_Kept /\ C5_Released /\ C5_Rejected /\ C5_Rejected']_vars

\* a position is live and locked some time after its creation, next to one
\* that was withdrawn after its lock ended
C5_Witness ==
    /\ \E id \in Live :
          /\ stakes[id].start_time < clock
          /\ clock < stakes[id].end_time
          /\ withdraw_stake_result(pool, stakes[id], clock, stakes[id].owner)
                 = Abort(E_STAKE_STILL_LOCKED)
    /\ Len(events) > 0
    /\ events[Len(events)].type = "StakeWithdrawn"

\* C6: after an accepted claim_rewards, a second claim_rewards of the owner at
\* the same time is rejected with E_ZERO_REWARD.
C6_SecondClaimZeroReward ==
    [][\A id \in Live :
         ClaimAccepted(id)
            => claim_rewards_result(pool', stakes'[id], clock', stakes[id].owner)
                   = Abort(E_ZERO_REWARD)
      ]_vars

\* C7: when the accrued reward exceeds a nonzero rewardBalance, an accepted
\* claim, compound or withdraw pays out (or compounds) exactly the
\* rewardBalance held before the call and leaves rewardBalance at 0.
C7_ClampPaysWholeReserve ==
    [][\A id \in Live :
         LET owner == stakes[id].owner
             reserve == pool.reward_balance
         IN  /\ (ClaimAccepted(id) /\ Accrued(id) > reserve /\ reserve > 0)
                    => /\ pool'.reward_balance = 0
                       /\ transfers' = <<Transfer(owner, reserve)>>
                       /\ events'[1].reward_amount = reserve
             /\ (CompoundAccepted(id) /\ Accrued(id) > reserve /\ reserve > 0)
                    => /\ pool'.reward_balance = 0
                       /\ stakes'[id].amount = stakes[id].amount + reserve
                       /\ pool'.staked_balance = pool.staked_balance + reserve
                       /\ events'[1].compound_amount = reserve
             /\ (WithdrawAccepted(id) /\ Accrued(id) > reserve /\ reserve > 0)
                    => /\ pool'.reward_balance = 0
                       /\ transfers' = <<Transfer(owner, stakes[id].amount),
                                          Transfer(owner, reserve)>>
                       /\ events'[1].reward_amount = reserve
      ]_vars

\* a compound was clamped to the whole reserve
C7_Witness ==
    /\ pool.reward_balance = 0
    /\ Len(events) = 1
    /\ events[1].type = "RewardCompounded"
    /\ events[1].compound_amount \in {1, 3}

\* q = floor(amount * rate * elapsed / (BASIS_POINTS_DENOMINATOR * SECONDS_PER_YEAR)),
\* stated without a division: q * D <= amount * rate * elapsed < (q + 1) * D
IsFloor(q, amount, rate, elapsed) ==
    LET x == MulSmall(MulSmall(Digits(elapsed), amount), rate)
        D(n) == MulSmall(MulSmall(Digits(n), SECONDS_PER_YEAR), BASIS_POINTS_DENOMINATOR)
    IN  /\ WideLessEq(D(q), x)
        /\ ~WideLessEq(D(q + 1), x)

\* C8: calculate_rewards(position, now) is floor(amount * rewardRate * elapsed /
\* (10000 * 31536000)) with elapsed = min(now, endTime) - lastAccrualTime, and a
\* first claim pays that amount; 1000 at 500 basis points over 2,592,000
\* seconds gives 4.
C8_RewardIsFloor ==
    \A id \in Live :
        LET s == stakes[id]
        IN  /\ s.last_compound_time <= Min(clock, s.end_time)
                 => IsFloor(calculate_rewards(s, clock), s.amount, s.reward_rate,
                            Min(clock, s.end_time) - s.last_compound_time)
            /\ (Len(events) = 1 /\ events[1].type = "RewardClaimed")
                 => IsFloor(events[1].reward_amount, s.amount, s.reward_rate,
                            Min(clock, s.end_time) - s.start_time)
            /\ (s.amount = 1000 /\ s.reward_rate = APY_30_DAYS
                    /\ s.last_compound_time = s.start_time
                    /\ clock = s.start_time + STAKING_DURATION_30_DAYS)
                 => calculate_rewards(s, clock) = 4

\* the owner has claimed the 4 units that 1000 at 500 basis points accrue in
\* 30 days
C8_Witness ==
    \E id \in Live :
        /\ Len(events) = 1
        /\ events[1].type = "RewardClaimed"
        /\ stakes[id].amount = 1000
        /\ stakes[id].reward_rate = 500
        /\ stakes[id].last_compound_time = stakes[id].start_time + 2592000
        /\ events[1].reward_amount = 4

\* the times at which the accrual of a position is compared: 0, 7.5, 15, 30,
\* 37.5 and 45 days after StartTime
ProbeTimes == {StartTime + e : e \in {0, 648000, 1296000, 2592000, 3240000, 3888000}}

\* the outcome of calculate_rewards: the reward, or -1 for the abort
Outcome(stake, t) ==
    IF calculate_rewards_aborts(stake, t) THEN -1 ELSE calculate_rewards(stake, t)

\* C9: for every live position, accrue(position, t) is non-decreasing in t
\* from lastAccrualTime up to endTime, and its outcome is the same for every
\* t >= endTime.
C9_AccrualMonotoneThenConstant ==
    \A id \in Live :
        LET s == stakes[id]
            f == [t \in ProbeTimes |-> Outcome(s, t)]
        IN  \A t1, t2 \in ProbeTimes :
                t1 <= t2
                    => /\ (s.last_compound_time <= t1 /\ t2 <= s.end_time)
                            => (f[t1] >= 0 /\ f[t1] <= f[t2])
                       /\ t1 >= s.end_time => f[t1] = f[t2]

\* a position past its lock whose accrual grew up to endTime and not after
C9_Witness ==
    \E id \in Live :
        LET s == stakes[id]
        IN  /\ clock > s.end_time
            /\ s.last_compound_time < s.end_time
            /\ calculate_rewards(s, clock) = calculate_rewards(s, s.end_time)
            /\ calculate_rewards(s, s.end_time) > calculate_rewards(s, s.end_time - 1296000)
            /\ calculate_rewards(s, s.end_time - 1296000) > 0

\* C10: whenever min(now, endTime) is not later than lastAccrualTime the accrual
\* is 0 and does not fail: claim_rewards and compound_rewards are rejected with
\* E_ZERO_REWARD, and withdraw_stake at now >= endTime is accepted.
C10_NoElapsedMeansZeroReward ==
    \A id \in Live :
        LET s == stakes[id]
        IN  calculation_time(s, clock) <= s.last_compound_time
                => /\ ~calculate_rewards_aborts(s, clock)
                   /\ claim_rewards_result(pool, s, clock, s.owner) = Abort(E_ZERO_REWARD)
                   /\ compound_rewards_result(pool, s, clock, s.owner) = Abort(E_ZERO_REWARD)
                   /\ clock >= s.end_time
                         => withdraw_stake_result(pool, s, clock, s.owner) = Success

\* the duration/rate table of the specification
TableRate(d) ==
    CASE d = 2592000 -> 500
      [] d = 7776000 -> 800
      [] d = 15552000 -> 1200
      [] d = 31536000 -> 2000

\* C11: every accepted create_stake(amount, lockDuration, autoCompound) at time
\* now adds amount to stakedBalance and 1 to totalStakesCount, leaves
\* rewardBalance and the other positions unchanged, and creates one position
\* with owner = caller, the amount, startTime = lastAccrualTime = now, endTime =
\* now + lockDuration and the table rate of lockDuration.
C11_CreateEffects ==
    [][\A sender \in Addresses, amount \in StakeAmounts, d \in CreateDurations,
          auto_compound \in BOOLEAN :
          (/\ next_id' # next_id
           /\ create_stake_result(sender, amount, d) = Success
           /\ create_stake(sender, amount, d, auto_compound))
              => /\ pool'.staked_balance = pool.staked_balance + amount
                 /\ pool'.total_stakes_count = pool.total_stakes_count + 1
                 /\ pool'.reward_balance = pool.reward_balance
                 /\ DOMAIN stakes' = DOMAIN stakes \cup {next_id}
                 /\ next_id \notin DOMAIN stakes
                 /\ \A id \in DOMAIN stakes : stakes'[id] = stakes[id]
                 /\ stakes'[next_id].owner = sender
                 /\ stakes'[next_id].amount = amount
                 /\ stakes'[next_id].auto_compound = auto_compound
                 /\ stakes'[next_id].start_time = clock
                 /\ stakes'[next_id].last_compound_time = clock
                 /\ stakes'[next_id].lock_duration = d
                 /\ stakes'[next_id].end_time = clock + d
                 /\ stakes'[next_id].reward_rate = TableRate(d)
      ]_vars

\* positions of 90, 180 and 365 days exist with their rates, one created by
\* bob next to one created earlier by alice
C11_Witness ==
    /\ Cardinality(Live) = 2
    /\ stakes[1].owner = "alice" /\ stakes[2].owner = "bob"
    /\ stakes[1].start_time < stakes[2].start_time
    /\ stakes[1].lock_duration = 15552000 /\ stakes[1].reward_rate = 1200
    /\ stakes[2].lock_duration = 7776000 /\ stakes[2].reward_rate = 800
    /\ pool.staked_balance = 2000
    /\ pool.total_stakes_count = 2

\* the four durations of the specification's table, in seconds
SpecDurations == {30 * 86400, 90 * 86400, 180 * 86400, 365 * 86400}

C12_Outcomes ==
    \A sender \in Addresses, amount \in StakeAmounts, d \in CreateDurations :
        /\ amount = 0 => create_stake_result(sender, amount, d) = Abort(E_INVALID_AMOUNT)
        /\ (amount > 0 /\ d \notin SpecDurations)
              => create_stake_result(sender, amount, d) = Abort(E_INVALID_DURATION)

C12_OnlyTable ==
    \A id \in Live : stakes[id].lock_duration \in SpecDurations /\ stakes[id].amount > 0

C12_RejectedCreate ==
    \A sender \in Addresses, amount \in StakeAmounts, d \in CreateDurations,
       auto_compound \in BOOLEAN :
        (/\ amount = 0 \/ d \notin SpecDurations
         /\ create_stake(sender, amount, d, auto_compound))
           => /\ stakes' = stakes
              /\ next_id' = next_id
              /\ pool' = pool

\* C12: create_stake is rejected with InvalidAmount when amount is 0 and with
\* InvalidDuration when lockDuration is none of the four table durations; the
\* rejected call creates no position and leaves stakedBalance, rewardBalance and
\* totalStakesCount unchanged; no position with a duration outside the table
\* ever exists.
C12_CreateValidation ==
    [][C12_Outcomes /\ C12_RejectedCreate /\ C12_OnlyTable']_vars

\* a position was accepted; a further create by bob with amount 0, or with a
\* duration of one day or of 30 days and a second, is refused
C12_Witness ==
    /\ Cardinality(Live) = 1
    /\ clock > StartTime
    /\ next_id <= MaxStakes
    /\ create_stake_result("bob", 0, 2592000) = Abort(E_INVALID_AMOUNT)
    /\ create_stake_result("bob", 0, 86400) = Abort(E_INVALID_AMOUNT)
    /\ create_stake_result("bob", 1000, 86400) = Abort(E_INVALID_DURATION)
    /\ create_stake_result("bob", 1000, 2592001) = Abort(E_INVALID_DURATION)
    /\ create_stake_result("bob", 1000, 0) = Abort(E_INVALID_DURATION)

\* position id has accrued a positive reward and the reserve is empty
Starved(id) ==
    /\ pool.reward_balance = 0
    /\ ~calculate_rewards_aborts(stakes[id], clock)
    /\ Accrued(id) > 0

\* in the state (p, st, t): claim and compound of a starved position are refused
C13_Refused(p, st, t) ==
    \A id \in DOMAIN st :
        (/\ p.reward_balance = 0
         /\ ~calculate_rewards_aborts(st[id], t)
         /\ calculate_rewards(st[id], t) > 0)
          => /\ claim_rewards_result(p, st[id], t, st[id].owner) = Abort(E_ZERO_REWARD)
             /\ compound_rewards_result(p, st[id], t, st[id].owner) = Abort(E_ZERO_REWARD)

C13_Kept ==
    \A id \in Live :
        (/\ pool.reward_balance = 0
         /\ stakes' # stakes \/ pool' # pool
         /\ Starved(id)
         /\ \/ claim_rewards(stakes[id].owner, id)
            \/ compound_rewards(stakes[id].owner, id))
           => /\ id \in DOMAIN stakes'
              /\ stakes'[id].amount = stakes[id].amount
              /\ stakes'[id].last_compound_time = stakes[id].last_compound_time
              /\ pool' = pool

\* C13: compound_rewards and claim_rewards on a position whose accrued reward
\* is positive while rewardBalance = 0 are rejected with ZeroReward, and the
\* rejected call changes neither the position's amount and lastAccrualTime nor
\* any pool field.
C13_EmptyReserveZeroReward ==
    [][UNCHANGED vars \/ (C13_Refused(pool', stakes', clock') /\ C13_Kept)]_vars

\* a claim has just emptied the reserve while another position has a positive
\* accrued reward
C13_Witness ==
    /\ pool.reward_balance = 0
    /\ events # << >>
    /\ events[1].type = "RewardClaimed"
    /\ \E id \in Live :
          /\ Starved(id)
          /\ id # events[1].stake_id
          /\ compound_rewards_result(pool, stakes[id], clock, stakes[id].owner)
                = Abort(E_ZERO_REWARD)

\* in the state (p, st, t): every call on a position by someone who is not its
\* stored owner has the outcome NotOwner
C14_NotOwner(p, st, t) ==
    \A id \in DOMAIN st : \A sender \in Callers \ {st[id].owner} :
        /\ withdraw_stake_result(p, st[id], t, sender) = Abort(E_NOT_OWNER)
        /\ claim_rewards_result(p, st[id], t, sender) = Abort(E_NOT_OWNER)
        /\ compound_rewards_result(p, st[id], t, sender) = Abort(E_NOT_OWNER)
        /\ toggle_auto_compound_result(st[id], sender) = Abort(E_NOT_OWNER)

C14_Kept ==
    \A id \in Live : \A sender \in Callers \ {stakes[id].owner} :
        (\/ withdraw_stake(sender, id)
         \/ claim_rewards(sender, id)
         \/ compound_rewards(sender, id)
         \/ \E auto_compound \in BOOLEAN : toggle_auto_compound(sender, id, auto_compound))
           => /\ stakes' = stakes
              /\ pool' = pool
              /\ events' = events

\* C14: withdraw_stake, claim_rewards, compound_rewards and toggle_auto_compound
\* called by anyone but the position's stored owner are rejected with NotOwner,
\* whatever the other checks would say, and leave the position, the pool
\* balances and the events unchanged.
C14_NotOwnerFirst ==
    [][C14_NotOwner(pool', stakes', clock') /\ C14_Kept]_vars

\* one position is still locked and has accrued nothing, on another every
\* reward calculation aborts; calls by a stranger are refused as NotOwner on both
C14_Witness ==
    \E i \in Live, j \in Live :
        /\ calculate_rewards_aborts(stakes[i], clock)
        /\ Locked(j)
        /\ stakes[j].last_compound_time = clock
        /\ \E sender \in Callers \ {stakes[i].owner, stakes[j].owner} :
              /\ withdraw_stake_result(pool, stakes[i], clock, sender) = Abort(E_NOT_OWNER)
              /\ withdraw_stake_result(pool, stakes[j], clock, sender) = Abort(E_NOT_OWNER)
              /\ claim_rewards_result(pool, stakes[j], clock, sender) = Abort(E_NOT_OWNER)

\* in the state (p, st): withdraw_stake cannot abort after its first write, the
\* counters and the staked balance cover every position's amount
C15_NoLateAbort(p, st) ==
    \A id \in DOMAIN st :
        /\ p.total_staked >= st[id].amount
        /\ p.total_stakes_count >= 1
        /\ p.staked_balance >= st[id].amount

\* a step of the operation either was accepted or changed nothing
C15_RejectedCreate ==
    \A sender \in Callers, amount \in StakeAmounts, d \in LockDurations,
       auto_compound \in BOOLEAN :
        create_stake(sender, amount, d, auto_compound)
          => \/ create_stake_result(sender, amount, d) = Success
             \/ UNCHANGED vars

C15_RejectedOnPosition ==
    \A id \in Live : \A sender \in Callers :
        /\ withdraw_stake(sender, id)
              => \/ withdraw_stake_result(pool, stakes[id], clock, sender) = Success
                 \/ UNCHANGED vars
        /\ claim_rewards(sender, id)
              => \/ claim_rewards_result(pool, stakes[id], clock, sender) = Success
                 \/ UNCHANGED vars
        /\ compound_rewards(sender, id)
              => \/ compound_rewards_result(pool, stakes[id], clock, sender) = Success
                 \/ UNCHANGED vars
        /\ \A auto_compound \in BOOLEAN :
              toggle_auto_compound(sender, id, auto_compound)
                => \/ toggle_auto_compound_result(stakes[id], sender) = Success
                   \/ UNCHANGED vars

C15_RejectedFund ==
    \A sender \in Callers, rewards \in RewardDeposits :
        add_rewards(sender, rewards)
          => \/ add_rewards_result(sender) = Success
             \/ UNCHANGED vars

C16_Accepted(p, st, t) ==
    \A id \in DOMAIN st :
        (/\ t >= st[id].end_time
         /\ ~calculate_rewards_aborts(st[id], t)
         /\ calculate_rewards(st[id], t) > p.reward_balance)
          => withdraw_stake_result(p, st[id], t, st[id].owner) = Success

\* the owner is sent the principal and what the reserve held
C16_Received ==
    \A id \in Live :
        (/\ id \notin DOMAIN stakes'
         /\ ~calculate_rewards_aborts(stakes[id], clock)
         /\ Accrued(id) > pool.reward_balance
         /\ WithdrawAccepted(id))
           => /\ transfers' = <<Transfer(stakes[id].owner, stakes[id].amount)>>
                    \o (IF pool.reward_balance > 0
                        THEN <<Transfer(stakes[id].owner, pool.reward_balance)>>
                        ELSE << >>)
              /\ pool'.reward_balance = 0
              /\ pool'.staked_balance = pool.staked_balance - stakes[id].amount

\* C16: a withdraw_stake by the owner at now >= endTime is accepted also when
\* rewardBalance is smaller than the final accrued reward, rewardBalance = 0
\* included: the owner receives the full principal plus min(accrued reward,
\* rewardBalance), and the shortfall of the reserve never causes a rejection.
C16_ShortfallNeverRejects ==
    [][UNCHANGED vars \/ (C16_Accepted(pool', stakes', clock') /\ C16_Received)]_vars

\* a withdrawal has just paid the principal and a reward cut down to what was
\* left of the reserve (accruals are 2 or 4, the payout is 1 or 3)
C16_Witness ==
    /\ Len(transfers) = 2
    /\ transfers[1].amount >= 1000
    /\ transfers[2].amount \in {1, 3}
    /\ Len(events) = 2
    /\ events[2].type = "StakeWithdrawn"
    /\ pool.reward_balance = 0

\* a withdrawal has just paid the principal alone, the reserve being empty
\* while a reward had accrued; the other position is in the same situation
C16_WitnessEmpty ==
    /\ Len(transfers) = 1
    /\ Len(events) = 1
    /\ events[1].type = "StakeWithdrawn"
    /\ pool.reward_balance = 0
    /\ \E id \in Live :
          /\ clock >= stakes[id].end_time
          /\ Starved(id)

\* Step: the reserve grew
Funded == pool'.reward_balance > pool.reward_balance

\* only the holder of the AdminCap can call add_rewards
C17_AdminOnly ==
    /\ add_rewards_result(Deployer) = Success
    /\ \A sender \in Callers \ {Deployer} : add_rewards_result(sender) # Success

\* an accepted add_rewards adds exactly the deposit to the reserve and changes
\* nothing else of the pool and no position
C17_Deposit ==
    \A rewards \in RewardDeposits :
        add_rewards(Deployer, rewards)
          => /\ pool' = [pool EXCEPT !.reward_balance = @ + rewards]
             /\ pool'.staked_balance = pool.staked_balance
             /\ pool'.total_stakes_count = pool.total_stakes_count
             /\ stakes' = stakes

\* a step that increases the reserve is an accepted add_rewards
C17_OnlyFunding ==
    Funded => \E rewards \in RewardDeposits : add_rewards(Deployer, rewards)

\* no call on a position, no create_stake and no add_rewards of another sender
\* increases the reserve
C17_OthersNeverFund ==
    Funded =>
        /\ \A sender \in Callers \ {Deployer}, rewards \in RewardDeposits :
              ~add_rewards(sender, rewards)
        /\ \A sender \in Callers, amount \in StakeAmounts, d \in LockDurations,
              auto_compound \in BOOLEAN :
              ~create_stake(sender, amount, d, auto_compound)
        /\ \A id \in Live : \A sender \in Callers :
              /\ ~withdraw_stake(sender, id)
              /\ ~claim_rewards(sender, id)
              /\ ~compound_rewards(sender, id)
              /\ \A auto_compound \in BOOLEAN :
                    ~toggle_auto_compound(sender, id, auto_compound)

\* C17: add_rewards requires the caller to hold the AdminCap and increases
\* rewardBalance by exactly the deposited amount, leaving stakedBalance,
\* totalStakesCount and every position unchanged; and add_rewards is the only
\* operation that ever increases rewardBalance.
C17_OnlyAddRewardsFunds ==
    [][UNCHANGED vars
         \/ (C17_AdminOnly /\ C17_Deposit /\ C17_OnlyFunding /\ C17_OthersNeverFund)]_vars

\* the reserve has been refilled after a payout: it is full, and a position
\* has claimed or compounded before
C17_Witness ==
    /\ pool.reward_balance = MaxReserve
    /\ events = << >>
    /\ \E id \in Live : stakes[id].last_compound_time > stakes[id].start_time
    /\ pool.staked_balance >= 1000

\* the operations that take rewards out of the reserve
PayingOps == {"claim", "compound", "withdraw"}

\* the owner's call of op on position stake is accepted in the pool p at time t
OwnerAccepted(op, p, stake, t) ==
    IF op = "claim" THEN claim_rewards_result(p, stake, t, stake.owner) = Success
    ELSE IF op = "compound" THEN compound_rewards_result(p, stake, t, stake.owner) = Success
    ELSE withdraw_stake_result(p, stake, t, stake.owner) = Success

\* what that call does: the reward it hands out (h, nothing when it is
\* rejected) and the pool it leaves behind (p)
Call(op, p, stake, t) ==
    IF ~OwnerAccepted(op, p, stake, t) THEN [h |-> 0, p |-> p]
    ELSE LET reward_amount == calculate_rewards(stake, t)
             paid == IF reward_amount > 0
                     THEN real_reward(reward_amount, p.reward_balance) ELSE 0
         IN  [h |-> paid,
              p |-> IF op = "claim" THEN pool_claim(p, paid)
                    ELSE IF op = "compound" THEN pool_compound(p, paid)
                    ELSE pool_withdraw(p, stake.amount, paid)]

\* the reward the call would take from a reserve that covers it
Due(op, stake, t) ==
    Call(op, [pool EXCEPT !.reward_balance = CalcReserve], stake, t).h

\* first and second are the two calls executed alone in the present state:
\* the rewards handed out when first executes before op2 on position j
SerialTotal(first, op2, j) ==
    first.h + Call(op2, first.p, stakes[j], clock).h

C18_Pair(i, j) ==
    \A op1 \in PayingOps :
        LET a1 == Call(op1, pool, stakes[i], clock)
            due1 == Due(op1, stakes[i], clock)
        IN  \A op2 \in PayingOps :
              LET a2 == Call(op2, pool, stakes[j], clock)
                  ij == SerialTotal(a1, op2, j)
                  ji == SerialTotal(a2, op1, i)
              IN  /\ ij = ji
                  /\ ij <= pool.reward_balance
                  /\ ij = Min(due1 + Due(op2, stakes[j], clock), pool.reward_balance)

\* C18: operations of different callers on the shared pool execute as atomic
\* steps one after the other; when two owners claim, compound or withdraw
\* against the same reserve, both orders hand out the same total, which is
\* min(sum of what is due, rewardBalance) and so never exceeds the reserve.
C18_SerialOrdersAgree ==
    \A i \in Live, j \in Live :
        (i < j /\ stakes[i].owner # stakes[j].owner) => C18_Pair(i, j)

\* two owners have both been served at the present time from a reserve too
\* small for the two: the second payout was cut to what the first had left
C18_Witness ==
    /\ pool.reward_balance = 0
    /\ Cardinality(Live) = 2
    /\ \A id \in Live : stakes[id].last_compound_time = clock
                           /\ stakes[id].start_time < clock
    /\ stakes[1].owner # stakes[2].owner
    /\ Len(events) = 1
    /\ events[1].type \in {"RewardClaimed", "RewardCompounded"}
    /\ \/ events[1].type = "RewardClaimed" /\ events[1].reward_amount \in {1, 3}
       \/ events[1].type = "RewardCompounded" /\ events[1].compound_amount \in {1, 3}

\* Step: an accepted claim or compound of position id whose payout is cut to
\* the reserve
ClampedPayout(id) ==
    /\ ClaimAccepted(id) \/ CompoundAccepted(id)
    /\ Accrued(id) > pool.reward_balance

\* the reserve of p refilled by refill
Refilled(p, refill) == [p EXCEPT !.reward_balance = @ + refill]

\* C19: after an accepted claim_rewards or compound_rewards at time t whose
\* payout was clamped below the accrued reward, lastAccrualTime = t and the
\* shortfall is lost: also after add_rewards has refilled the reserve, a claim
\* at the same t is rejected with ZeroReward.
C19_ShortfallLost ==
    [][\A id \in Live :
         ClampedPayout(id)
           => /\ stakes'[id].last_compound_time = clock
              /\ \A refill \in RewardDeposits :
                    claim_rewards_result(Refilled(pool', refill), stakes'[id], clock',
                                         stakes'[id].owner) = Abort(E_ZERO_REWARD)
      ]_vars

\* Step: compound_rewards of position id adds the accrual of the window since
\* the last accrual time, computed on the amount held in that window
C20_OwnWindow(id) ==
    LET s == stakes[id]
        r == events'[1].compound_amount
    IN  /\ IsFloor(r, s.amount, s.reward_rate, clock - s.last_compound_time)
        /\ stakes'[id].amount = s.amount + r
        /\ stakes'[id].last_compound_time = clock
        /\ stakes'[id].start_time = s.start_time
        /\ stakes'[id].end_time = s.end_time
        /\ stakes'[id].reward_rate = s.reward_rate

\* Step: the second compound_rewards of a position created at t0 = start_time
\* with principal P that has compounded r1 at t1 = last_compound_time: the
\* amount becomes P + r1 + r2, r2 the accrual of P + r1 over (t1, t2]
C20_SecondCompound(id) ==
    LET s == stakes[id]
        r1 == CalcReserve - pool.reward_balance
        P == s.amount - r1
        r2 == events'[1].compound_amount
    IN  (/\ s.last_compound_time > s.start_time
         /\ r1 > 0
         /\ IsFloor(r1, P, s.reward_rate, s.last_compound_time - s.start_time))
           => /\ IsFloor(r2, P + r1, s.reward_rate, clock - s.last_compound_time)
              /\ stakes'[id].amount = P + r1 + r2

\* C20: with a reserve large enough for both, two accepted compound_rewards
\* calls at times t1 < t2 <= endTime on a position created at t0 with principal
\* P each compound exactly the accrual of their own window: r1 the accrual of
\* P over (t0, t1], r2 the accrual of P + r1 over (t1, t2], and the position's
\* amount after both is P + r1 + r2.
C20_CompoundWindows ==
    [][\A id \in Live :
         (/\ clock <= stakes[id].end_time
          /\ CompoundAccepted(id)
          /\ Accrued(id) <= pool.reward_balance)
            => (C20_OwnWindow(id) /\ C20_SecondCompound(id))
      ]_vars

\* 999999 at 2000 basis points, compounded 15 and 30 days after creation:
\* r1 = 8219, r2 = 8286 (one compound after 30 days would have given 16438)
C20_Witness ==
    /\ 1 \in Live
    /\ stakes[1].amount = 999999 + 8219 + 8286
    /\ stakes[1].reward_rate = APY_365_DAYS
    /\ stakes[1].last_compound_time = StartTime + 2592000
    /\ clock <= stakes[1].end_time
    /\ Len(events) = 1
    /\ events[1].type = "RewardCompounded"
    /\ events[1].compound_amount = 8286
    /\ pool.reward_balance = CalcReserve - 8219 - 8286

\* C21: every accepted compound_rewards moves the clamped reward r from
\* rewardBalance to stakedBalance and adds r to the position's amount:
\* stakedBalance + rewardBalance is unchanged, the amount and stakedBalance
\* grow by exactly r, nothing is paid out to the owner, and totalStakesCount
\* and all other positions are unchanged.
C21_CompoundMovesReward ==
    [][\A id \in Live :
         CompoundAccepted(id)
           => LET r == Min(Accrued(id), pool.reward_balance)
              IN  /\ r > 0
                  /\ pool'.reward_balance = pool.reward_balance - r
                  /\ pool'.staked_balance = pool.staked_balance + r
                  /\ pool'.staked_balance + pool'.reward_balance
                        = pool.staked_balance + pool.reward_balance
                  /\ pool'.total_stakes_count = pool.total_stakes_count
                  /\ DOMAIN stakes' = DOMAIN stakes
                  /\ stakes'[id].amount = stakes[id].amount + r
                  /\ \A other \in Live \ {id} : stakes'[other] = stakes[other]
                  /\ transfers' = << >>
                  /\ events' = <<[type |-> "RewardCompounded", stake_id |-> id,
                                  owner |-> stakes[id].owner, compound_amount |-> r]>>
      ]_vars

\* a position has just compounded its whole accrual of 4 next to another
\* position, a unit is left in the reserve and nothing was sent to anyone
C21_Witness ==
    /\ Cardinality(Live) = 2
    /\ Len(events) = 1
    /\ events[1].type = "RewardCompounded"
    /\ events[1].compound_amount = 4
    /\ stakes[events[1].stake_id].amount = 1004
    /\ pool.staked_balance = 2004
    /\ pool.reward_balance = 1
    /\ transfers = << >>

\* in the state (p, st, t): position id is past its end time with an accrual
\* window still open, a positive accrual and a reserve that is not empty
C22_Case(p, st, t, id) ==
    /\ t >= st[id].end_time
    /\ st[id].last_compound_time < st[id].end_time
    /\ p.reward_balance > 0
    /\ ~IsFloor(0, st[id].amount, st[id].reward_rate,
                st[id].end_time - st[id].last_compound_time)

C22_Accepted(p, st, t) ==
    \A id \in DOMAIN st :
        C22_Case(p, st, t, id)
          => compound_rewards_result(p, st[id], t, st[id].owner) = Success

C22_Compounds ==
    \A id \in Live :
        (CompoundAccepted(id) /\ C22_Case(pool, stakes, clock, id))
          => LET r == events'[1].compound_amount
                 a == Accrued(id)
             IN  /\ IsFloor(a, stakes[id].amount, stakes[id].reward_rate,
                            stakes[id].end_time - stakes[id].last_compound_time)
                 /\ r = Min(a, pool.reward_balance)
                 /\ stakes'[id].amount = stakes[id].amount + r

\* C22: compound_rewards by the owner at now >= endTime on a position with
\* lastAccrualTime < endTime, positive accrual and non-empty reserve is accepted
\* and compounds min(accrual up to endTime, rewardBalance) into the position.
C22_CompoundAfterExpiry ==
    [][UNCHANGED vars \/ (C22_Accepted(pool', stakes', clock') /\ C22_Compounds)]_vars

\* a position has just been compounded 15 days after its end time: it holds
\* the accrual of its 30 days on top of the principal
C22_Witness ==
    /\ Len(events) = 1
    /\ events[1].type = "RewardCompounded"
    /\ events[1].compound_amount = 4
    /\ \E id \in Live :
          /\ id = events[1].stake_id
          /\ clock > stakes[id].end_time
          /\ stakes[id].last_compound_time = clock
          /\ stakes[id].amount = 1004

\* Step: an accepted claim_rewards or compound_rewards of the owner of id
C23_Accrual(id) ==
    /\ pool'.reward_balance < pool.reward_balance
    /\ \/ /\ claim_rewards_result(pool, stakes[id], clock, stakes[id].owner) = Success
          /\ claim_rewards(stakes[id].owner, id)
       \/ /\ compound_rewards_result(pool, stakes[id], clock, stakes[id].owner) = Success
          /\ compound_rewards(stakes[id].owner, id)

\* C23: for every position lastAccrualTime never decreases: it changes only on
\* an accepted claim_rewards or compound_rewards, and each such call sets it to
\* a value strictly greater than its previous value.
C23_LastAccrualIncreases ==
    [][\A id \in Live :
         id \in DOMAIN stakes'
           => /\ stakes'[id].last_compound_time >= stakes[id].last_compound_time
              /\ stakes'[id].last_compound_time # stakes[id].last_compound_time
                    => C23_Accrual(id)
              /\ C23_Accrual(id)
                    => stakes'[id].last_compound_time > stakes[id].last_compound_time
      ]_vars

\* a position claimed after 15 days and has just claimed again after 30: the
\* second claim paid the 2 units of its own window out of a reserve that held
\* more
C23_Witness ==
    /\ Len(events) = 1
    /\ events[1].type = "RewardClaimed"
    /\ events[1].reward_amount = 2
    /\ pool.reward_balance > 0
    /\ \E id \in Live :
          /\ id = events[1].stake_id
          /\ stakes[id].last_compound_time = clock
          /\ clock = stakes[id].start_time + 2592000

\* the fields of a position that are set when it is created
Fixed(stake) ==
    <<stake.owner, stake.start_time, stake.lock_duration, stake.end_time,
      stake.reward_rate>>

\* C24: a position's id, owner, startTime, lockDuration, endTime and rewardRate
\* are fixed at creation: no step changes them while the position lives, a new
\* position gets an id never used before, and endTime = startTime +
\* lockDuration > startTime holds for the position's whole life.
C24_FixedAtCreation ==
    [][/\ \A id \in Live :
            id \in DOMAIN stakes' => Fixed(stakes'[id]) = Fixed(stakes[id])
       /\ \A id \in DOMAIN stakes' :
            /\ id \notin Live => (id = next_id /\ next_id' = next_id + 1)
            /\ id < next_id'
            /\ stakes'[id].end_time = stakes'[id].start_time + stakes'[id].lock_duration
            /\ stakes'[id].end_time > stakes'[id].start_time
      ]_vars

\* a position has been compounded past its creation and switched to
\* auto-compound while a second position was created after it
C24_Witness ==
    /\ Cardinality(Live) = 2
    /\ stakes[1].amount > 1000
    /\ stakes[1].auto_compound
    /\ stakes[1].last_compound_time > stakes[1].start_time
    /\ stakes[2].start_time > stakes[1].last_compound_time
    /\ stakes[1].end_time = stakes[1].start_time + 2592000
    /\ stakes[2].last_compound_time > stakes[2].start_time

\* C25: an accepted toggle_auto_compound by the owner changes only that
\* position's autoCompound flag: the pool, the position's amount and
\* lastAccrualTime and all other positions are unchanged, no event is emitted,
\* nothing is transferred and no compounding is performed.
C25_ToggleOnlyFlag ==
    [][\A id \in Live : \A auto_compound \in BOOLEAN :
         (/\ events' = << >>
          /\ toggle_auto_compound_result(stakes[id], stakes[id].owner) = Success
          /\ toggle_auto_compound(stakes[id].owner, id, auto_compound))
            => /\ pool' = pool
               /\ DOMAIN stakes' = DOMAIN stakes
               /\ stakes'[id] = [stakes[id] EXCEPT !.auto_compound = auto_compound]
               /\ stakes'[id].amount = stakes[id].amount
               /\ stakes'[id].last_compound_time = stakes[id].last_compound_time
               /\ \A other \in Live \ {id} : stakes'[other] = stakes[other]
               /\ transfers' = << >>
               /\ UNCHANGED <<next_id, clock>>
      ]_vars

\* a position with accrued reward and a funded reserve has been switched to
\* auto-compound: the reward is still not compounded
C25_Witness ==
    /\ events = << >>
    /\ transfers = << >>
    /\ pool.reward_balance = 3
    /\ \E id \in Live :
          /\ stakes[id].auto_compound
          /\ stakes[id].amount = 1000
          /\ stakes[id].last_compound_time = stakes[id].start_time
          /\ clock >= stakes[id].start_time + 2592000
          /\ Accrued(id) = 4

\* C26: in every reachable state totalStakesCount equals the number of live
\* positions: it is incremented only by an accepted create and decremented only
\* by an accepted withdraw, and the decrement never underflows.
C26_CountIsLivePositions ==
    [][/\ pool'.total_stakes_count = Cardinality(DOMAIN stakes')
       /\ pool'.total_stakes_count >= 0
       /\ pool'.total_stakes_count > pool.total_stakes_count
            => /\ pool'.total_stakes_count = pool.total_stakes_count + 1
               /\ DOMAIN stakes' = DOMAIN stakes \cup {next_id}
               /\ events'[1].type = "StakeCreated"
       /\ pool'.total_stakes_count < pool.total_stakes_count
            => /\ pool'.total_stakes_count = pool.total_stakes_count - 1
               /\ pool.total_stakes_count >= 1
               /\ \E id \in Live : WithdrawAccepted(id) /\ DOMAIN stakes' = Live \ {id}
       /\ \A id \in Live : WithdrawAccepted(id)
            => pool'.total_stakes_count = pool.total_stakes_count - 1
       /\ next_id' # next_id
            => pool'.total_stakes_count = pool.total_stakes_count + 1
      ]_vars

\* two positions were created and the first has just been withdrawn
C26_Witness ==
    /\ next_id = 3
    /\ DOMAIN stakes = {2}
    /\ pool.total_stakes_count = 1
    /\ events # << >>
    /\ events[Len(events)].type = "StakeWithdrawn"
    /\ events[Len(events)].stake_id = 1

\* C27: the events of a transaction are appended to the log; an accepted
\* withdraw_stake emits a RewardClaimed event carrying the clamped reward paid
\* only when that reward is positive, followed by exactly one StakeWithdrawn
\* event carrying the principal released; a withdraw that pays no reward emits
\* StakeWithdrawn alone.
C27_WithdrawEvents ==
    [][\A id \in Live :
         (id \notin DOMAIN stakes' /\ WithdrawAccepted(id))
           => LET r == Min(Accrued(id), pool.reward_balance)
                  withdrawn == [type |-> "StakeWithdrawn", stake_id |-> id,
                                owner |-> stakes[id].owner,
                                amount |-> stakes[id].amount]
                  claimed == [type |-> "RewardClaimed", stake_id |-> id,
                              owner |-> stakes[id].owner, reward_amount |-> r]
              IN  /\ r > 0 => events' = <<claimed, withdrawn>>
                  /\ r = 0 => events' = <<withdrawn>>
                  /\ pool.reward_balance - pool'.reward_balance = r
      ]_vars

\* a position whose reward was claimed at its end time has just been
\* withdrawn: nothing had accrued since, and StakeWithdrawn is the only event
\* although the reserve is not empty
C27_Witness ==
    /\ events = <<[type |-> "StakeWithdrawn", stake_id |-> 1, owner |-> "alice",
                   amount |-> 1000]>>
    /\ Len(transfers) = 1
    /\ pool.reward_balance > 0

\* a withdrawal has just emitted RewardClaimed with the 4 units paid, then
\* StakeWithdrawn with the principal
C27_WitnessReward ==
    /\ events = <<[type |-> "RewardClaimed", stake_id |-> 1, owner |-> "alice",
                   reward_amount |-> 4],
                  [type |-> "StakeWithdrawn", stake_id |-> 1, owner |-> "alice",
                   amount |-> 1000]>>
    /\ Len(transfers) = 2

\* the sum of field f over the events of type t in the sequence evs
RECURSIVE EventSum(_, _, _)

EventSum(evs, t, f) ==
    IF evs = << >> THEN 0
    ELSE (IF Head(evs).type = t THEN Head(evs)[f] ELSE 0) + EventSum(Tail(evs), t, f)

RECURSIVE TransferSum(_)

TransferSum(ts) ==
    IF ts = << >> THEN 0 ELSE Head(ts).amount + TransferSum(Tail(ts))

\* what the step's transaction moved
Deposited == EventSum(events', "StakeCreated", "amount")
Released == EventSum(events', "StakeWithdrawn", "amount")
RewardPaid == EventSum(events', "RewardClaimed", "reward_amount")
Compounded == EventSum(events', "RewardCompounded", "compound_amount")
FundedByAdmin ==
    IF \E rewards \in RewardDeposits : pool' # pool /\ add_rewards(Deployer, rewards)
    THEN pool'.reward_balance - pool.reward_balance
    ELSE 0

\* C28: tokens are conserved: in every step the principal deposited and the
\* funding received equal the growth of stakedBalance + rewardBalance plus the
\* principal released and the reward paid out, what is sent out is exactly the
\* principal released and the reward paid, and the reserve moves by the funding
\* less the reward paid and compounded and never goes below zero, so that over
\* any sequence rewards paid plus compounded never exceed the total funded.
C28_TokensConserved ==
    [][\/ UNCHANGED <<pool, events, transfers>>
       \/ /\ Deposited + FundedByAdmin
               = (pool'.staked_balance + pool'.reward_balance)
                   - (pool.staked_balance + pool.reward_balance)
                   + Released + RewardPaid
          /\ TransferSum(transfers') = Released + RewardPaid
          /\ pool'.staked_balance - pool.staked_balance
               = Deposited + Compounded - Released
          /\ pool'.reward_balance - pool.reward_balance
               = FundedByAdmin - RewardPaid - Compounded
          /\ pool'.reward_balance >= 0
          /\ pool'.staked_balance >= 0
      ]_vars

\* 1000 deposited and 5 funded; 2 were compounded, then the position was
\* withdrawn with 1002 of principal and 2 of reward, and 1 is left in the reserve
C28_Witness ==
    /\ next_id = 2
    /\ Len(transfers) = 2
    /\ transfers[1].amount = 1002
    /\ transfers[2].amount = 2
    /\ pool.staked_balance = 0
    /\ pool.reward_balance = 1

\* the accrual of the position over its whole lock period in one window
SingleWindow(stake) ==
    calculate_rewards([stake EXCEPT !.last_compound_time = stake.start_time],
                      stake.end_time)

\* q * 10000 <= amount * rate, on the wide product
WithinRate(q, amount, rate) ==
    WideLessEq(MulSmall(Digits(q), 10000), MulSmall(Digits(amount), rate))

\* C29: truncation never favours the staker: for a position that is only
\* claimed, with an ample reserve, the rewards paid by any sequence of claims
\* and the final withdraw sum to at most the single-window accrual floor(amount
\* * rewardRate * lockDuration / (10000 * 31536000)), which is at most amount *
\* rewardRate / 10000 and so, like the amount, fits in 64 bits.
C29_TruncationAgainstStaker ==
    [][\A id \in Live :
         LET s == stakes[id]
             paid == CalcReserve - pool'.reward_balance
             w == SingleWindow(s)
         IN  /\ paid >= 0
             /\ paid <= w
             /\ IsFloor(w, s.amount, s.reward_rate, s.lock_duration)
             /\ WithinRate(w, s.amount, s.reward_rate)
             /\ w <= s.amount
             /\ ~calculate_rewards_aborts(s, clock)
                  => /\ WithinRate(Accrued(id), s.amount, s.reward_rate)
                     /\ Accrued(id) <= w
      ]_vars

\* 999999 at 500 basis points for 30 days, claimed after 15 and after 30 days
\* and withdrawn: 2054 + 2054 = 4108 were paid, one unit less than the 4109 of
\* the single window
C29_Witness ==
    /\ Live = {}
    /\ Len(events) = 1
    /\ events[1].type = "StakeWithdrawn"
    /\ events[1].amount = 999999
    /\ pool.reward_balance = CalcReserve - 4108
    /\ clock = StartTime + 2592000

\* in the pool p with positions st: the counter total_staked is the value of
\* staked_balance, which get_pool_details reports, and covers every position
C30_Mirror(p, st) ==
    /\ p.total_staked = p.staked_balance
    /\ get_pool_details(p)[1] = p.total_staked
    /\ \A id \in DOMAIN st :
          /\ p.total_staked >= st[id].amount
          /\ p.total_stakes_count >= 1

\* C30: in every reachable state the counter total_staked equals the value of
\* the staked_balance it mirrors, and the subtractions of withdraw_stake never
\* underflow.
C30_TotalStakedMirrorsBalance ==
    [][/\ C30_Mirror(pool', stakes')
       /\ \A id \in Live :
            WithdrawAccepted(id)
              => /\ pool'.total_staked = pool.total_staked - stakes[id].amount
                 /\ pool'.total_staked >= 0
                 /\ pool'.total_stakes_count >= 0
      ]_vars

\* two positions were created, both compounded, one was withdrawn: counter and
\* balance are the 1002 of the position that is left
C30_Witness ==
    /\ next_id = 3
    /\ Cardinality(Live) = 1
    /\ pool.total_staked = 1002
    /\ pool.staked_balance = 1002
    /\ Len(events) = 2
    /\ events[2].type = "StakeWithdrawn"
    /\ events[2].amount = 1002

====
